---- MODULE Spec2Model ----
(***************************************************************************)
(* soos-sast: discovery of SARIF result files below sourceCodePath,        *)
(* creation of a scan, preparation of the multipart payload and upload.    *)
(* The model follows the multi-file revision of src/src/index.ts           *)
(* (runAnalysis, findSASTFiles, getSastFilesAsFormData, createAndRun).     *)
(* Paths are sequences of one-character strings, so that String.replace,   *)
(* String.split, Array.join, Path.resolve and Path.basename are computed   *)
(* character by character as the code computes them.                       *)
(***************************************************************************)
EXTENDS Integers, Sequences, FiniteSets, TLC

VARIABLES
    pc,           \* position of the run inside createAndRun / runAnalysis
    args,         \* the parsed command line (SOOSSASTAnalysisArgs)
    fsFiles,      \* the files on disk at discovery: a set of absolute paths
    cwd,          \* the working directory of the process
    globResult,   \* what Glob.sync returned (paths relative to cwd)
    sastFiles,    \* the ISastFile array returned by findSASTFiles
    ids,          \* projectHash / branchHash / analysisId of runAnalysis
    formData,     \* the FormData built by getSastFilesAsFormData
    calls,        \* the remote calls issued so far, in order
    remoteStatus, \* the status of the scan at the remote service
    exitCode,     \* the code the process exits with (0 unless exit(1) is called)
    unreadable,   \* discovered files that cannot be opened any more
    openStreams,  \* the files a read stream of the payload holds open
    steps         \* the operations the run has performed, in order

vars == <<pc, args, fsFiles, cwd, globResult, sastFiles, ids, formData,
          calls, remoteStatus, exitCode, unreadable, openStreams, steps>>

-----------------------------------------------------------------------------
(* Bounds of the model *)

\* at most this many files exist on disk in one run
MaxFiles == 3

\* at most this many discovered files become unreadable during a run
MaxUnreadable == 1

-----------------------------------------------------------------------------
(* Strings *)

Sep == "/"

Min(a, b) == IF a < b THEN a ELSE b

RECURSIVE SplitAcc(_, _, _, _, _)
SplitAcc(s, sep, i, cur, acc) ==
    IF i > Len(s) THEN Append(acc, cur)
    ELSE IF s[i] = sep THEN SplitAcc(s, sep, i + 1, <<>>, Append(acc, cur))
    ELSE SplitAcc(s, sep, i + 1, Append(cur, s[i]), acc)

\* String.prototype.split(sep) for a one-character separator
Split(s, sep) == SplitAcc(s, sep, 1, <<>>, <<>>)

RECURSIVE Join(_, _)
\* Array.prototype.join(sep)
Join(parts, sep) ==
    IF Len(parts) = 0 THEN <<>>
    ELSE IF Len(parts) = 1 THEN parts[1]
    ELSE parts[1] \o <<sep>> \o Join(Tail(parts), sep)

\* Array.prototype.slice(from, to) with 0-based from, exclusive to
Slice(a, from, to) == SubSeq(a, from + 1, to)

\* String.prototype.indexOf(pat), 1-based; 0 when pat does not occur
IndexOf(s, pat) ==
    LET hits == {i \in 1..(Len(s) + 1) :
                    /\ i + Len(pat) - 1 <= Len(s)
                    /\ SubSeq(s, i, i + Len(pat) - 1) = pat}
    IN IF hits = {} THEN 0 ELSE CHOOSE i \in hits : \A j \in hits : i <= j

\* String.prototype.replace(pat, rep) with a string pattern: first occurrence only
Replace(s, pat, rep) ==
    LET i == IndexOf(s, pat)
    IN IF i = 0 THEN s
       ELSE SubSeq(s, 1, i - 1) \o rep \o SubSeq(s, i + Len(pat), Len(s))

\* lower-casing of the letters the file names of the model use
ToLowerChar(c) ==
    CASE c = "S" -> "s" [] c = "A" -> "a" [] c = "R" -> "r" [] c = "I" -> "i"
      [] c = "F" -> "f" [] c = "J" -> "j" [] c = "O" -> "o" [] c = "N" -> "n"
      [] c = "Z" -> "z" [] OTHER -> c

\* a comparison that keeps the letter case
KeepCase(s) == s

ToLower(s) == [i \in 1..Len(s) |-> ToLowerChar(s[i])]

EndsWith(s, suffix) ==
    /\ Len(s) >= Len(suffix)
    /\ SubSeq(s, Len(s) - Len(suffix) + 1, Len(s)) = suffix

StartsWith(s, prefix) ==
    /\ Len(s) >= Len(prefix)
    /\ SubSeq(s, 1, Len(prefix)) = prefix

-----------------------------------------------------------------------------
(* node:path *)

IsAbsolute(p) == Len(p) > 0 /\ p[1] = Sep

RECURSIVE NormalizeSegs(_, _)
\* the segments of a path with "", "." dropped and ".." resolved
NormalizeSegs(segs, acc) ==
    IF Len(segs) = 0 THEN acc
    ELSE LET h == Head(segs) IN
         IF h = <<>> \/ h = <<".">> THEN NormalizeSegs(Tail(segs), acc)
         ELSE IF h = <<".", ".">>
              THEN NormalizeSegs(Tail(segs),
                                 IF Len(acc) = 0 THEN acc
                                 ELSE SubSeq(acc, 1, Len(acc) - 1))
              ELSE NormalizeSegs(Tail(segs), Append(acc, h))

\* a resolve that hands the path back as it was given
PathUnresolved(dir, p) == p

\* Path.resolve(p) evaluated in working directory dir: an absolute, normalized
\* path without a trailing separator
PathResolve(dir, p) ==
    LET full == IF IsAbsolute(p) THEN p ELSE dir \o <<Sep>> \o p
    IN <<Sep>> \o Join(NormalizeSegs(Split(full, Sep), <<>>), Sep)

\* Path.basename(p) of a path without trailing separator
PathBasename(p) ==
    LET parts == Split(p, Sep) IN parts[Len(parts)]

\* Path.dirname(p) of an absolute path without trailing separator
PathDirname(p) ==
    LET parts == Split(p, Sep)
        d == Join(SubSeq(parts, 1, Len(parts) - 1), Sep)
    IN IF d = <<>> THEN <<Sep>> ELSE d

-----------------------------------------------------------------------------
(* The file system and the command line of a run *)

SarifExt == <<".", "s", "a", "r", "i", "f", ".", "j", "s", "o", "n">>

\* the directory the process is started in
StartDir == <<"/", "w">>

\* the directory the runs search: StartDir/r
RootDir == StartDir \o <<"/", "r">>

FileInRoot == RootDir \o <<"/", "x">> \o SarifExt
FileInA == RootDir \o <<"/", "a", "/", "x">> \o SarifExt
FileInBC == RootDir \o <<"/", "b", "/", "c", "/", "y">> \o SarifExt
FileUpper == RootDir \o <<"/", "a", "/", "Z", ".", "S", "A", "R", "I", "F", ".", "J", "S", "O", "N">>
FileText == RootDir \o <<"/", "a", "/", "n", ".", "t", "x", "t">>
FileOutside == StartDir \o <<"/", "o">> \o SarifExt
FileInBin == RootDir \o <<"/", "b", "i", "n", "/", "m">> \o SarifExt

CandidateFiles ==
    {FileInRoot, FileInA, FileInBC, FileUpper, FileText, FileOutside, FileInBin}

\* the directories that exist on disk
Directories ==
    {StartDir, RootDir, RootDir \o <<"/", "a">>, RootDir \o <<"/", "b">>,
     RootDir \o <<"/", "b", "/", "c">>, RootDir \o <<"/", "b", "i", "n">>}

\* a directory that does not exist on disk
MissingDir == StartDir \o <<"/", "q">>

\* the ways the command line names the directory to search
SourceCodePaths ==
    {RootDir,                 \* /w/r
     RootDir \o <<Sep>>,      \* /w/r/
     <<"r">>,                 \* r
     <<"r", "/">>,            \* r/
     <<".">>,                 \* .
     MissingDir}              \* /w/q, which does not exist

\* --filesToExclude lists
ExcludeX == <<"*", "*", "/", "x">> \o SarifExt
FilesToExcludeLists == {<<>>, <<ExcludeX>>}

OnFailureValues == {"continue_on_failure", "fail_the_build"}

NoValue == "undefined"

\* the identifiers a successful setupScan can return
ScanResults ==
    {[projectHash |-> "p1", branchHash |-> "b1", analysisId |-> "s1"],
     [projectHash |-> "p2", branchHash |-> "b2", analysisId |-> "s2"]}

NoIds == [projectHash |-> NoValue, branchHash |-> NoValue, analysisId |-> NoValue]

-----------------------------------------------------------------------------
(* glob *)

\* SOOS_SAST_CONSTANTS.FilePattern with nocase: the last segment of the path
\* ends in .sarif.json, whatever the letter case, at any depth
FilePatternMatches(rel) ==
    LET name == PathBasename(rel)
    IN /\ Len(name) > Len(SarifExt)
       /\ name[1] # "."
       /\ EndsWith(ToLower(name), SarifExt)

\* a walk that lists directory dir only and enters no subdirectory
FilesDirectlyIn(files, dir) ==
    {SubSeq(f, Len(dir) + 2, Len(f)) :
        f \in {g \in files : StartsWith(g, dir \o <<Sep>>)
                               /\ \A i \in (Len(dir) + 2)..Len(g) : g[i] # Sep}}

\* the files below directory dir, as paths relative to dir
FilesBelow(files, dir) ==
    {SubSeq(f, Len(dir) + 2, Len(f)) :
        f \in {g \in files : StartsWith(g, dir \o <<Sep>>)}}

\* the set of paths Glob.sync(pattern, {nocase: true}) matches in directory dir
GlobMatches(files, dir) ==
    {rel \in FilesBelow(files, dir) : FilePatternMatches(rel)}

\* the orders in which a traversal can produce the elements of S
Orderings(S) ==
    {o \in [1..Cardinality(S) -> S] : \A i, j \in 1..Cardinality(S) : o[i] = o[j] => i = j}

-----------------------------------------------------------------------------
(* getSastFilesAsFormData *)

\* parentFolder of one file, as the reduce callback computes it
ParentFolder(path, workingDirectory) ==
    LET fileParts == Split(Replace(path, workingDirectory, <<>>), Sep)
    IN IF Len(fileParts) >= 2
       THEN Join(Slice(fileParts, 0, Len(fileParts) - 1), Sep)
       ELSE <<>>

\* a suffix on every field, the first included
FieldNameAlwaysSuffixed(base, index) == base \o ToString(index)

\* `file${suffix}` / `parentFolder${suffix}` with suffix = index > 0 ? index : ""
FieldName(base, index) == base \o (IF index > 0 THEN ToString(index) ELSE "")

\* the two fields the reduce callback appends for the file at 0-based index
FormDataAppend(formDataAcc, sastFile, index, workingDirectory) ==
    formDataAcc \o
    << [name |-> FieldName("file", index), kind |-> "stream",
        value |-> sastFile.path],
       [name |-> FieldName("parentFolder", index), kind |-> "string",
        value |-> ParentFolder(sastFile.path, workingDirectory)] >>

RECURSIVE FormDataReduce(_, _, _, _)
FormDataReduce(files, index, formDataAcc, workingDirectory) ==
    IF index >= Len(files) THEN formDataAcc
    ELSE FormDataReduce(files, index + 1,
                        FormDataAppend(formDataAcc, files[index + 1], index,
                                       workingDirectory),
                        workingDirectory)

\* a reduce that starts at the second file
GetSastFilesAsFormDataSkipFirst(files, workingDirectory) ==
    FormDataReduce(files, 1, <<>>, workingDirectory)

\* a reduce that leaves out the files it cannot open
GetSastFilesAsFormDataSkipUnreadable(files, workingDirectory) ==
    LET Readable(f) == f.path \notin unreadable
    IN FormDataReduce(SelectSeq(files, Readable), 0, <<>>, workingDirectory)

GetSastFilesAsFormData(files, workingDirectory) ==
    FormDataReduce(files, 0, <<>>, workingDirectory)

-----------------------------------------------------------------------------
(* findSASTFiles *)

\* a map that returns the files in reverse order
ToSastFilesReversed(absolutePathFiles) ==
    [i \in 1..Len(absolutePathFiles) |->
        [name |-> PathBasename(absolutePathFiles[Len(absolutePathFiles) + 1 - i]),
         path |-> absolutePathFiles[Len(absolutePathFiles) + 1 - i]]]

\* absolutePathFiles.map(f => ({name: Path.basename(f), path: f}))
ToSastFiles(absolutePathFiles) ==
    [i \in 1..Len(absolutePathFiles) |->
        [name |-> PathBasename(absolutePathFiles[i]),
         path |-> absolutePathFiles[i]]]

\* a map that keeps the first two matches only
AbsolutePathFilesCapped(files, dir) ==
    [i \in 1..Min(Len(files), 2) |-> PathResolve(dir, files[i])]

\* a map that moves the first match behind the others
AbsolutePathFilesRotated(files, dir) ==
    [i \in 1..Len(files) |-> PathResolve(dir, files[(i % Len(files)) + 1])]

\* files.map(x => Path.resolve(x)) in working directory dir
AbsolutePathFiles(files, dir) ==
    [i \in 1..Len(files) |-> PathResolve(dir, files[i])]

\* a test that lets an empty result through
FoundFilesAlways(absolutePathFiles) == TRUE

\* absolutePathFiles.length > 0
FoundFiles(absolutePathFiles) == Len(absolutePathFiles) > 0

-----------------------------------------------------------------------------
(* The run *)

\* a run that uploads right after the scan is created
AfterSetupScanUpload == "uploadScanToolResult"

\* runAnalysis prepares the payload once setupScan has returned
AfterSetupScan == "getSastFilesAsFormData"

\* a run that enters the catch of runAnalysis after a successful upload
AfterUploadReturnsCatch == "catch"

\* runAnalysis and createAndRun return once the upload has returned
AfterUploadReturns == "exited"

\* a run that calls uploadScanToolResult again when it has thrown
AfterUploadThrowsRetry == "uploadScanToolResult"

\* a throw of uploadScanToolResult is caught by the catch of runAnalysis
AfterUploadThrows == "catch"

\* a check that lets a missing value through
EnsureValueAlways(value) == TRUE

\* ensureValue(value, name) returns, and does not throw
EnsureValue(value) == value # NoValue

CredentialsGiven == args.clientId # NoValue /\ args.apiKey # NoValue

Call(op, callIds, status) == [op |-> op, ids |-> callIds, status |-> status]

\* the paths of the read streams of a payload
StreamPaths(fd) == {fd[i].value : i \in {j \in 1..Len(fd) : fd[j].kind = "stream"}}

\* FileSystem.createReadStream never throws for a path: the streams of the
\* files that can be opened hold a file handle, the others hold an error that
\* the transport meets when it reads them
OpenedStreams(fd, lost) == StreamPaths(fd) \ lost

\* the transport reads the streams in payload order and closes each stream it
\* has read to its end: after k streams what is still open
StillOpen(fd, open, k) ==
    open \ {fd[i].value : i \in {j \in 1..Len(fd) : fd[j].kind = "stream" /\ j <= 2 * k}}

\* file handles that outlive the process that opened them
HandlesKeptAfterExit(open) == open

\* a process that ends holds no file handle any more
HandlesAfterExit(open) == {}

Init ==
    /\ pc = "createAndRun"
    /\ args \in [sourceCodePath : SourceCodePaths,
                 filesToExclude : FilesToExcludeLists,
                 onFailure : OnFailureValues,
                 clientId : {"client", NoValue},
                 apiKey : {"key", NoValue}]
    /\ fsFiles \in {S \in SUBSET CandidateFiles : Cardinality(S) <= MaxFiles}
    /\ cwd = StartDir
    /\ globResult = <<>>
    /\ sastFiles = <<>>
    /\ ids = NoIds
    /\ formData = <<>>
    /\ calls = <<>>
    /\ remoteStatus = "None"
    /\ exitCode = 0
    /\ unreadable = {}
    /\ openStreams = {}
    /\ steps = <<>>

\* createAndRun up to the call of runAnalysis; a missing clientId or apiKey
\* makes ensureValue throw into the catch of createAndRun
CreateAndRun ==
    /\ pc = "createAndRun"
    /\ IF ~EnsureValue(args.clientId) \/ ~EnsureValue(args.apiKey)
       THEN pc' = "exited" /\ exitCode' = 1
       ELSE pc' = "findSASTFiles" /\ UNCHANGED exitCode
    /\ steps' = Append(steps, "createAndRun")
    /\ UNCHANGED <<args, fsFiles, cwd, globResult, sastFiles, ids, formData,
                   calls, remoteStatus, unreadable, openStreams>>

\* a chdir that leaves the working directory of the process as it was
ProcessChdirRestored(current, dir) == current

\* the working directory after process.chdir(dir) has returned
ProcessChdir(current, dir) == dir

\* findSASTFiles as called by runAnalysis outside its try block: the throw of
\* process.chdir for a directory that does not exist, and the throw for an
\* empty result, reach the catch of createAndRun
FindSASTFiles ==
    /\ pc = "findSASTFiles"
    /\ LET dir == PathResolve(cwd, args.sourceCodePath) IN
       IF dir \notin Directories
       THEN /\ pc' = "exited"
            /\ exitCode' = 1
            /\ UNCHANGED <<cwd, globResult, sastFiles>>
       ELSE /\ cwd' = ProcessChdir(cwd, dir)
            /\ \E files \in Orderings(GlobMatches(fsFiles, dir)) :
                 LET absolutePathFiles == AbsolutePathFiles(files, dir) IN
                 /\ globResult' = files
                 /\ IF FoundFiles(absolutePathFiles)
                    THEN /\ sastFiles' = ToSastFiles(absolutePathFiles)
                         /\ pc' = "setupScan"
                         /\ UNCHANGED exitCode
                    ELSE /\ sastFiles' = <<>>
                         /\ pc' = "exited"
                         /\ exitCode' = 1
    /\ steps' = Append(steps, "findSASTFiles")
    /\ UNCHANGED <<args, fsFiles, ids, formData, calls, remoteStatus,
                   unreadable, openStreams>>

\* a discovered file is removed, or loses its read permission, after discovery
\* and before the payload is prepared
FileBecomesUnreadable ==
    /\ pc = "getSastFilesAsFormData"
    /\ Cardinality(unreadable) < MaxUnreadable
    /\ \E i \in 1..Len(sastFiles) :
         /\ sastFiles[i].path \notin unreadable
         /\ unreadable' = unreadable \cup {sastFiles[i].path}
    /\ UNCHANGED <<pc, args, fsFiles, cwd, globResult, sastFiles, ids, formData,
                   calls, remoteStatus, exitCode, openStreams, steps>>

\* an assignment that takes the branch hash for the project hash
AssignIdsSwapped(result) ==
    [projectHash |-> result.branchHash,
     branchHash |-> result.projectHash,
     analysisId |-> result.analysisId]

\* projectHash = result.projectHash; branchHash = result.branchHash;
\* analysisId = result.analysisId
AssignIds(result) ==
    [projectHash |-> result.projectHash,
     branchHash |-> result.branchHash,
     analysisId |-> result.analysisId]

\* setupScan returns the identifiers of the new scan
SetupScanReturns ==
    /\ pc = "setupScan"
    /\ \E result \in ScanResults :
         /\ ids' = AssignIds(result)
         /\ calls' = Append(calls, Call("setupScan", result, "None"))
    /\ remoteStatus' = "Incomplete"
    /\ pc' = AfterSetupScan
    /\ steps' = Append(steps, "setupScan")
    /\ UNCHANGED <<args, fsFiles, cwd, globResult, sastFiles, formData, exitCode,
                   unreadable, openStreams>>

\* setupScan throws
SetupScanThrows ==
    /\ pc = "setupScan"
    /\ calls' = Append(calls, Call("setupScan", NoIds, "None"))
    /\ pc' = "catch"
    /\ steps' = Append(steps, "setupScan")
    /\ UNCHANGED <<args, fsFiles, cwd, globResult, sastFiles, ids, formData,
                   remoteStatus, exitCode, unreadable, openStreams>>

\* getSastFilesAsFormData builds the payload from sastFiles and creates one
\* read stream per file
PrepareFormData ==
    /\ pc = "getSastFilesAsFormData"
    /\ formData' = GetSastFilesAsFormData(sastFiles, args.sourceCodePath)
    /\ openStreams' = OpenedStreams(formData', unreadable)
    /\ pc' = "uploadScanToolResult"
    /\ steps' = Append(steps, "getSastFilesAsFormData")
    /\ UNCHANGED <<args, fsFiles, cwd, globResult, sastFiles, ids, calls,
                   remoteStatus, exitCode, unreadable>>

\* uploadScanToolResult returns: every stream has been read to its end;
\* runAnalysis and createAndRun return and the process ends with its exit code
\* untouched
UploadReturns ==
    /\ pc = "uploadScanToolResult"
    /\ StreamPaths(formData) \cap unreadable = {}
    /\ calls' = Append(calls, Call("uploadScanToolResult", ids, "None"))
    /\ remoteStatus' = "Running"
    /\ openStreams' = HandlesAfterExit(StillOpen(formData, openStreams, Len(formData)))
    /\ pc' = AfterUploadReturns
    /\ steps' = Append(steps, "uploadScanToolResult")
    /\ UNCHANGED <<args, fsFiles, cwd, globResult, sastFiles, ids, formData,
                   exitCode, unreadable>>

\* uploadScanToolResult throws, after the transport has read some of the streams
UploadThrows ==
    /\ pc = "uploadScanToolResult"
    /\ calls' = Append(calls, Call("uploadScanToolResult", ids, "None"))
    /\ \E k \in 0..Len(sastFiles) :
         /\ \A i \in 1..k : 2 * i - 1 <= Len(formData) =>
                               formData[2 * i - 1].value \notin unreadable
         /\ openStreams' = StillOpen(formData, openStreams, k)
    /\ pc' = AfterUploadThrows
    /\ steps' = Append(steps, "uploadScanToolResult")
    /\ UNCHANGED <<args, fsFiles, cwd, globResult, sastFiles, ids, formData,
                   remoteStatus, exitCode, unreadable>>

\* a status update that reports the scan as still running
ScanStatusIncomplete == "Incomplete"

\* ScanStatus.Error, the status the catch of runAnalysis reports
ScanStatusError == "Error"

\* a catch that reports the error whatever it knows of the scan
HasIdsAlways == TRUE

HasIds == ids.projectHash # NoValue /\ ids.branchHash # NoValue /\ ids.analysisId # NoValue

\* the catch of runAnalysis: updateScanStatus(Error) when the identifiers are
\* known, then exit(1); a throw of updateScanStatus reaches the catch of
\* createAndRun, which calls exit(1) as well
CatchError ==
    /\ pc = "catch"
    /\ IF HasIds
       THEN /\ calls' = Append(calls, Call("updateScanStatus", ids, ScanStatusError))
            /\ steps' = steps \o <<"updateScanStatus", "exit">>
            /\ \E ok \in BOOLEAN :
                 remoteStatus' = IF ok THEN ScanStatusError ELSE remoteStatus
       ELSE /\ steps' = Append(steps, "exit")
            /\ UNCHANGED <<calls, remoteStatus>>
    /\ pc' = "exited"
    /\ exitCode' = 1
    /\ openStreams' = HandlesAfterExit(openStreams)
    /\ UNCHANGED <<args, fsFiles, cwd, globResult, sastFiles, ids, formData,
                   unreadable>>

\* the remote service finishes the analysis of the uploaded results
RemoteScanFinishes ==
    /\ remoteStatus = "Running"
    /\ remoteStatus' \in {"Complete", "Failed"}
    /\ UNCHANGED <<pc, args, fsFiles, cwd, globResult, sastFiles, ids, formData,
                   calls, exitCode, unreadable, openStreams, steps>>

Next ==
    \/ CreateAndRun
    \/ FindSASTFiles
    \/ SetupScanReturns
    \/ SetupScanThrows
    \/ PrepareFormData
    \/ UploadReturns
    \/ UploadThrows
    \/ CatchError
    \/ RemoteScanFinishes

Spec == Init /\ [][Next]_vars

\* runs in which discovered files become unreadable before the payload is
\* prepared, for one form of the command line
InitIO ==
    /\ Init
    /\ args.sourceCodePath = RootDir
    /\ args.filesToExclude = <<>>
    /\ args.onFailure = "continue_on_failure"
    /\ CredentialsGiven

NextIO ==
    \/ Next
    \/ FileBecomesUnreadable

SpecIO == InitIO /\ [][NextIO]_vars

-----------------------------------------------------------------------------
(* The single-file revision: findSASTFilePath and getSastAsFormData.  Its    *)
(* runAnalysis and createAndRun are those of the multi-file revision, with   *)
(* findSASTFilePath in the place of findSASTFiles and getSastAsFormData in   *)
(* the place of getSastFilesAsFormData.                                      *)

\* Path.join(a, b)
PathJoin(a, b) ==
    LET full == a \o <<Sep>> \o b
        body == Join(NormalizeSegs(Split(full, Sep), <<>>), Sep)
    IN IF IsAbsolute(full) THEN <<Sep>> \o body
       ELSE IF body = <<>> THEN <<".">> ELSE body

\* a test that accepts every name
FilePatternRegexTestAny(s) == TRUE

\* /\.sarif\.json$/.test(s)
FilePatternRegexTest(s) == EndsWith(s, SarifExt)

\* a second result file in directory a
FileInA2 == RootDir \o <<"/", "a", "/", "y">> \o SarifExt

SingleCandidateFiles == {FileInRoot, FileInA, FileInA2, FileUpper, FileText}

\* the values of the path argument: directories and files
SastPaths ==
    {RootDir, <<"r">>, RootDir \o <<"/", "a">>, RootDir \o <<"/", "a", "/">>,
     FileInRoot, FileUpper, FileText}

\* the names FileSystem.promises.readdir(dir) returns: the files and the
\* directories that lie directly in dir
DirectoryEntries(files, dir) ==
    {PathBasename(f) : f \in {g \in files \cup Directories : g # <<Sep>> /\ PathDirname(g) = dir}}

\* the index Array.prototype.find stops at, counted from the end
FindLastIndex(files) ==
    LET matching == {i \in 1..Len(files) : FilePatternRegexTest(files[i])}
    IN IF matching = {} THEN 0
       ELSE CHOOSE i \in matching : \A j \in matching : j <= i

\* the index of the element files.find(file => FilePatternRegex.test(file))
\* returns, 0 when it returns undefined
FindIndex(files) ==
    LET matching == {i \in 1..Len(files) : FilePatternRegexTest(files[i])}
    IN IF matching = {} THEN 0
       ELSE CHOOSE i \in matching : \A j \in matching : i <= j

\* the state in which createAndRun calls runAnalysis
InitSingle ==
    /\ pc = "findSASTFilePath"
    /\ args \in [sourceCodePath : SastPaths,
                 filesToExclude : {<<>>},
                 onFailure : {"continue_on_failure"},
                 clientId : {"client"},
                 apiKey : {"key"}]
    /\ fsFiles \in {S \in SUBSET SingleCandidateFiles : Cardinality(S) <= MaxFiles}
    /\ cwd = StartDir
    /\ globResult = <<>>
    /\ sastFiles = <<>>
    /\ ids = NoIds
    /\ formData = <<>>
    /\ calls = <<>>
    /\ remoteStatus = "None"
    /\ exitCode = 0
    /\ unreadable = {}
    /\ openStreams = {}
    /\ steps = <<"createAndRun">>

\* findSASTFilePath as called by runAnalysis outside its try block; globResult
\* holds the directory listing and sastFiles the one path it returns.  statSync
\* throws for a path that does not exist.
FindSASTFilePath ==
    /\ pc = "findSASTFilePath"
    /\ LET sourceCodePath == args.sourceCodePath
           resolved == PathResolve(cwd, sourceCodePath)
       IN IF resolved \in Directories
          THEN \E files \in Orderings(DirectoryEntries(fsFiles, resolved)) :
                 /\ globResult' = files
                 /\ IF FindIndex(files) # 0
                    THEN LET filePath == PathJoin(sourceCodePath, files[FindIndex(files)])
                         IN /\ sastFiles' = <<[name |-> PathBasename(filePath), path |-> filePath]>>
                            /\ pc' = "setupScan"
                            /\ UNCHANGED exitCode
                    ELSE /\ sastFiles' = <<>>
                         /\ pc' = "exited"
                         /\ exitCode' = 1
          ELSE /\ globResult' = <<>>
               /\ IF resolved \in fsFiles /\ FilePatternRegexTest(sourceCodePath)
                  THEN /\ sastFiles' = <<[name |-> PathBasename(sourceCodePath),
                                          path |-> sourceCodePath]>>
                       /\ pc' = "setupScan"
                       /\ UNCHANGED exitCode
                  ELSE /\ sastFiles' = <<>>
                       /\ pc' = "exited"
                       /\ exitCode' = 1
    /\ steps' = Append(steps, "findSASTFilePath")
    /\ UNCHANGED <<args, fsFiles, cwd, ids, formData, calls, remoteStatus,
                   unreadable, openStreams>>

\* getSastAsFormData: one read stream, appended as the field "file"
GetSastAsFormData ==
    /\ pc = AfterSetupScan
    /\ formData' = <<[name |-> "file", kind |-> "stream", value |-> sastFiles[1].path]>>
    /\ openStreams' = OpenedStreams(formData', unreadable)
    /\ pc' = "uploadScanToolResult"
    /\ steps' = Append(steps, "getSastAsFormData")
    /\ UNCHANGED <<args, fsFiles, cwd, globResult, sastFiles, ids, calls,
                   remoteStatus, exitCode, unreadable>>

NextSingle ==
    \/ FindSASTFilePath
    \/ SetupScanReturns
    \/ SetupScanThrows
    \/ GetSastAsFormData
    \/ UploadReturns
    \/ UploadThrows
    \/ CatchError
    \/ RemoteScanFinishes

SpecSingle == InitSingle /\ [][NextSingle]_vars

-----------------------------------------------------------------------------
(* Vocabulary of the properties *)

\* findSASTFiles has run
DiscoveryRan == CredentialsGiven /\ pc \notin {"createAndRun", "findSASTFiles"}

\* findSASTFiles has returned a list to runAnalysis
DiscoveryReturned == DiscoveryRan /\ (pc # "exited" \/ calls # <<>>)

Called(op) == \E i \in 1..Len(calls) : calls[i].op = op

\* the payload has been built and handed to the upload call
PayloadBuilt == pc = "uploadScanToolResult" \/ Called("uploadScanToolResult")

UploadSucceeded ==
    /\ pc = "exited"
    /\ Len(calls) > 0
    /\ calls[Len(calls)].op = "uploadScanToolResult"

\* the candidate files whose name ends in .sarif.json, in whatever letter case
SarifFiles == {FileInRoot, FileInA, FileInBC, FileUpper, FileOutside, FileInBin}

\* the files of the disk that match the inclusion pattern below the root
RawMatches ==
    {SubSeq(f, Len(cwd) + 2, Len(f)) :
        f \in {g \in fsFiles \cap SarifFiles : StartsWith(g, cwd \o <<Sep>>)}}

\* a path satisfies a pattern of the form **/<name> when its last segment is <name>
MatchesExclusion(path, patterns) ==
    \E i \in 1..Len(patterns) :
        /\ StartsWith(patterns[i], <<"*", "*", "/">>)
        /\ PathBasename(path) = SubSeq(patterns[i], 4, Len(patterns[i]))

ExcludedMatches == {rel \in RawMatches : MatchesExclusion(rel, args.filesToExclude)}

IsStream(e) == e.kind = "stream"
IsString(e) == e.kind = "string"

\* the content parts and the folder parts of the payload, in payload order
ContentParts == SelectSeq(formData, IsStream)
FolderParts == SelectSeq(formData, IsString)

\* the raw matches as absolute paths, in match order
RawMatchPaths == [i \in 1..Len(globResult) |-> cwd \o <<Sep>> \o globResult[i]]

\* the path from the root directory to the directory holding the file
FolderBelowRoot(path, root) ==
    LET d == PathDirname(path)
    IN IF d = root THEN <<>> ELSE SubSeq(d, Len(root) + 2, Len(d))

\* what the run reports when it ends: the code knows two endings only
Outcome ==
    IF pc # "exited" THEN "Running"
    ELSE IF exitCode = 0 THEN "Success" ELSE "Error"

TerminalStatuses == {"Complete", "Failed", "Error"}

-----------------------------------------------------------------------------
(* C1 *)

\* C1: when discovery finds no file, the run ends with a non-zero exit code and
\* no remote call (setupScan, uploadScanToolResult, updateScanStatus) is ever
\* made; whenever a remote call has been made the discovered list is non-empty.
C1_NoInputBeforeRemoteCalls ==
    /\ calls # <<>> => Len(sastFiles) > 0 /\ RawMatches # {}
    /\ DiscoveryRan /\ RawMatches = {} =>
          pc = "exited" /\ exitCode # 0 /\ calls = <<>>

C1_Witness ==
    /\ DiscoveryRan
    /\ fsFiles # {}
    /\ RawMatches = {}
    /\ pc = "exited"
    /\ exitCode = 1

-----------------------------------------------------------------------------
(* C2 *)

\* C2: with n files matching the inclusion pattern, m of which match a pattern
\* of filesToExclude, discovery returns exactly n - m files, none of which
\* matches a pattern of filesToExclude.
C2_ExcludedFilesDropped ==
    DiscoveryRan =>
        /\ Len(sastFiles) = Cardinality(RawMatches) - Cardinality(ExcludedMatches)
        /\ \A i \in 1..Len(sastFiles) :
              ~MatchesExclusion(sastFiles[i].path, args.filesToExclude)

-----------------------------------------------------------------------------
(* C3 *)

-----------------------------------------------------------------------------
(* C4 *)

-----------------------------------------------------------------------------
(* C5 *)

\* C5: for every file of the payload below a sub-directory of the root, the
\* parentFolder sent is the path from the root to the directory of the file,
\* without leading separator and without the file name (a and b/c for
\* root/a/x.sarif.json and root/b/c/y.sarif.json).
C5_ParentFolderIsRelativeDirectory ==
    PayloadBuilt =>
        \A i \in 1..Len(sastFiles) :
            PathDirname(sastFiles[i].path) # cwd =>
                /\ 2 * i <= Len(formData)
                /\ formData[2 * i].value = FolderBelowRoot(sastFiles[i].path, cwd)
                /\ formData[2 * i].value # <<>>
                /\ formData[2 * i].value[1] # Sep

-----------------------------------------------------------------------------
(* C6 *)

\* C6: the parentFolder of a file is the empty string exactly when the file
\* sits directly in the root, with or without a trailing separator on the
\* root given on the command line.
C6_EmptyParentFolderIffInRoot ==
    PayloadBuilt =>
        \A i \in 1..Len(sastFiles) :
            /\ 2 * i <= Len(formData)
            /\ formData[2 * i].value = <<>>
                  <=> PathDirname(sastFiles[i].path) = cwd

-----------------------------------------------------------------------------
(* C7 *)

FileFieldNames == <<"file", "file1", "file2", "file3", "file4", "file5">>
FolderFieldNames ==
    <<"parentFolder", "parentFolder1", "parentFolder2", "parentFolder3",
      "parentFolder4", "parentFolder5">>

\* C7: the first file uses the field names file and parentFolder, the file at
\* index i >= 1 uses file<i> and parentFolder<i>; the two fields of a file
\* carry the same suffix and no field name is used twice.
C7_FieldNamesCarryIndex ==
    PayloadBuilt =>
        /\ \A i \in 1..Len(sastFiles) :
              /\ 2 * i <= Len(formData)
              /\ formData[2 * i - 1].name = FileFieldNames[i]
              /\ formData[2 * i - 1].value = sastFiles[i].path
              /\ formData[2 * i].name = FolderFieldNames[i]
        /\ \A i, j \in 1..Len(formData) :
              formData[i].name = formData[j].name => i = j

C7_Witness ==
    /\ PayloadBuilt
    /\ Len(sastFiles) >= 2
    /\ formData[1].name = "file"
    /\ formData[4].name = "parentFolder1"

-----------------------------------------------------------------------------
(* C8 *)

\* C8: the payload holds exactly one content field and one parentFolder field
\* per discovered file, in the order of the file list, none dropped and none
\* duplicated.
C8_OnePartPerFile ==
    PayloadBuilt =>
        /\ Len(ContentParts) = Len(sastFiles)
        /\ Len(FolderParts) = Len(sastFiles)
        /\ \A i \in 1..Len(sastFiles) :
              /\ ContentParts[i].value = sastFiles[i].path
              /\ formData[2 * i - 1] = ContentParts[i]
              /\ formData[2 * i] = FolderParts[i]

C8_Witness == PayloadBuilt /\ Len(sastFiles) = 3 /\ Len(formData) = 6

-----------------------------------------------------------------------------
(* C9 *)

\* C9: the exit code follows the final scan status and the on-failure policy:
\* 0 for Complete; for a failed or erroring scan non-zero with fail_the_build
\* and 0 with continue_on_failure.
C9_ExitCodeFollowsStatusAndPolicy ==
    pc = "exited" /\ CredentialsGiven =>
        /\ remoteStatus = "Complete" => exitCode = 0
        /\ remoteStatus \in {"Failed", "Error"} =>
              (exitCode # 0 <=> args.onFailure = "fail_the_build")

-----------------------------------------------------------------------------
(* C10 *)

\* C10: a run whose status checks never see a terminal status ends with a
\* timeout outcome, distinct from Complete and Failed.
C10_TimeoutWhenNoTerminalStatus ==
    UploadSucceeded /\ remoteStatus \notin TerminalStatuses => Outcome = "Timeout"

-----------------------------------------------------------------------------
(* C11 *)

\* setupScan has returned the three identifiers of the scan
SetupScanReturned ==
    /\ Len(calls) > 0
    /\ calls[1].op = "setupScan"
    /\ calls[1].ids \in ScanResults

\* the run has failed inside the try block of runAnalysis and has ended
FailedInTry == pc = "exited" /\ exitCode = 1 /\ calls # <<>>

\* C11: a run that fails during scan creation, preparation or upload calls
\* updateScanStatus exactly when setupScan had returned all three identifiers;
\* a failure of setupScan itself triggers no status update.
C11_StatusUpdateIffIdsKnown ==
    /\ Called("updateScanStatus") => SetupScanReturned
    /\ FailedInTry => (Called("updateScanStatus") <=> SetupScanReturned)
    /\ FailedInTry /\ calls[1].ids = NoIds => Len(calls) = 1

C11_Witness ==
    /\ FailedInTry
    /\ SetupScanReturned
    /\ calls[Len(calls)] = Call("updateScanStatus", ids, "Error")

-----------------------------------------------------------------------------
(* C12 *)

\* how many times the run has performed operation op
Attempts(op) == Cardinality({i \in 1..Len(steps) : steps[i] = op})

\* the run has ended on a fatal condition: missing credentials, no input, or a
\* failure of scan creation or of the upload
EndedFatally == pc = "exited" /\ ~UploadSucceeded

\* C12: every fatal condition ends the run with a non-zero exit code, and
\* discovery, scan creation, preparation and upload are each attempted at most
\* once per run, with no retry.
C12_FatalExitsNonZeroNoRetry ==
    /\ EndedFatally => exitCode # 0
    /\ \A op \in {"findSASTFiles", "setupScan", "getSastFilesAsFormData",
                  "uploadScanToolResult"} : Attempts(op) <= 1
    /\ Cardinality({i \in 1..Len(calls) : calls[i].op = "setupScan"}) <= 1
    /\ Cardinality({i \in 1..Len(calls) : calls[i].op = "uploadScanToolResult"}) <= 1

C12_Witness ==
    /\ EndedFatally
    /\ exitCode = 1
    /\ Attempts("findSASTFiles") = 1
    /\ Attempts("setupScan") = 1
    /\ Attempts("getSastFilesAsFormData") = 1
    /\ Attempts("uploadScanToolResult") = 1

-----------------------------------------------------------------------------
(* C13 *)

Performed(op) == \E i \in 1..Len(steps) : steps[i] = op

\* the place of the first occurrence of op among the steps of the run
Position(op) == CHOOSE i \in 1..Len(steps) : steps[i] = op /\ \A j \in 1..(i - 1) : steps[j] # op

-----------------------------------------------------------------------------
(* C14 *)

\* a discovered file could not be opened when the payload was prepared
SomeFileUnreadable == \E i \in 1..Len(sastFiles) : sastFiles[i].path \in unreadable

-----------------------------------------------------------------------------
(* C15 *)

-----------------------------------------------------------------------------
(* C16 *)

\* the directory names the README lists as excluded by default
DirectoriesToExcludeDefault ==
    {<<"n", "o", "d", "e", "_", "m", "o", "d", "u", "l", "e", "s">>,
     <<"b", "i", "n">>, <<"o", "b", "j">>, <<"l", "i", "b">>}

\* a directory of the path, below the root, bears an excluded name
UnderExcludedDirectory(path, root) ==
    LET segs == Split(SubSeq(path, Len(root) + 2, Len(path)), Sep)
    IN \E i \in 1..(Len(segs) - 1) : segs[i] \in DirectoriesToExcludeDefault

\* the candidate files that lie under an excluded directory of RootDir
FilesUnderExcludedDirectories ==
    {f \in CandidateFiles : StartsWith(f, RootDir \o <<Sep>>) /\ UnderExcludedDirectory(f, RootDir)}

\* the paths discovery has returned
ReturnedPaths == {sastFiles[i].path : i \in 1..Len(sastFiles)}

\* how many directories lie between the root and the file
Depth(path, root) ==
    Cardinality({i \in (Len(root) + 2)..Len(path) : path[i] = Sep})

-----------------------------------------------------------------------------
(* C17 *)

\* C17: no file that lies under a directory excluded by directoriesToExclude
\* (by default node_modules, bin, obj and lib, at any depth) is returned by
\* discovery or made part of the payload.
C17_NoFileFromExcludedDirectory ==
    /\ ReturnedPaths \cap FilesUnderExcludedDirectories = {}
    /\ StreamPaths(formData) \cap FilesUnderExcludedDirectories = {}

-----------------------------------------------------------------------------
(* C18 *)

-----------------------------------------------------------------------------
(* C20 *)

\* C20: findSASTFiles returns one file per raw match, the i-th file being the
\* i-th match of the traversal: nothing is sorted, merged or moved.
C20_ResultKeepsMatchOrder ==
    DiscoveryReturned =>
        /\ Len(sastFiles) = Len(globResult)
        /\ Cardinality(ReturnedPaths) = Len(globResult)
        /\ \A i \in 1..Len(globResult) :
              /\ EndsWith(sastFiles[i].path, <<Sep>> \o globResult[i])
              /\ Len(sastFiles[i].path) = Len(cwd) + 1 + Len(globResult[i])

C20_Witness ==
    /\ DiscoveryReturned
    /\ Len(sastFiles) = 3
    /\ sastFiles[1].path = FileInBC
    /\ sastFiles[2].path = FileInA
    /\ sastFiles[3].path = FileInRoot

-----------------------------------------------------------------------------
(* C19 *)

\* findSASTFilePath has returned a path
FilePathReturned == pc # "findSASTFilePath" /\ Len(sastFiles) = 1

\* the path argument names a directory
GivenDirectory == PathResolve(cwd, args.sourceCodePath) \in Directories

\* C19: in the single-file revision a directory argument selects the first
\* entry of the directory listing whose name matches the SAST pattern, and a
\* file argument that matches the pattern selects that very path; the selected
\* file is uploaded as the single field "file".
C19_FirstEntryOrGivenFile ==
    /\ FilePathReturned /\ GivenDirectory =>
          \E i \in 1..Len(globResult) :
              /\ EndsWith(globResult[i], SarifExt)
              /\ \A j \in 1..(i - 1) : ~EndsWith(globResult[j], SarifExt)
              /\ PathResolve(cwd, sastFiles[1].path)
                    = PathResolve(cwd, args.sourceCodePath) \o <<Sep>> \o globResult[i]
    /\ FilePathReturned /\ ~GivenDirectory =>
          /\ sastFiles[1].path = args.sourceCodePath
          /\ args.sourceCodePath \in fsFiles
          /\ EndsWith(args.sourceCodePath, SarifExt)
    /\ PayloadBuilt =>
          /\ FilePathReturned
          /\ formData = <<[name |-> "file", kind |-> "stream", value |-> sastFiles[1].path]>>

C19_Witness ==
    /\ UploadSucceeded
    /\ GivenDirectory
    /\ {FileInA, FileInA2} \subseteq fsFiles
    /\ sastFiles[1].path = FileInA2
    /\ formData[1].name = "file"
    /\ Len(formData) = 1

-----------------------------------------------------------------------------
(* C21 *)

\* C21: every file discovery returns has an absolute path, and its name is the
\* final segment of that path.
C21_AbsolutePathAndBaseName ==
    \A i \in 1..Len(sastFiles) :
        LET f == sastFiles[i] IN
        /\ Len(f.path) > 0
        /\ f.path[1] = Sep
        /\ Len(f.name) > 0
        /\ \A k \in 1..Len(f.name) : f.name[k] # Sep
        /\ Len(f.path) > Len(f.name)
        /\ SubSeq(f.path, Len(f.path) - Len(f.name), Len(f.path)) = <<Sep>> \o f.name

C21_Witness ==
    /\ DiscoveryReturned
    /\ args.sourceCodePath = <<"r">>
    /\ Len(sastFiles) = 2
    /\ sastFiles[1].path = FileInBC
    /\ sastFiles[1].name = <<"y">> \o SarifExt
    /\ sastFiles[2].path = FileInRoot

-----------------------------------------------------------------------------
(* C22 *)

\* the places of the status updates among the remote calls
StatusUpdates == {i \in 1..Len(calls) : calls[i].op = "updateScanStatus"}

\* C22: the status update of the error path is attempted at most once, always
\* with status Error; whether it succeeds or throws, the run has then ended
\* with a non-zero exit code and no remote call follows it.
C22_OneBestEffortStatusUpdate ==
    /\ Cardinality(StatusUpdates) <= 1
    /\ \A i \in StatusUpdates :
          /\ calls[i].status = "Error"
          /\ i = Len(calls)
          /\ pc = "exited"
          /\ exitCode # 0
    /\ Attempts("updateScanStatus") = Cardinality(StatusUpdates)

\* the status update was attempted and threw: the remote scan is not in Error
C22_Witness ==
    /\ StatusUpdates = {3}
    /\ remoteStatus = "Incomplete"
    /\ pc = "exited"
    /\ exitCode = 1

-----------------------------------------------------------------------------
(* C23 *)

\* the path argument leads to no SAST file: a directory without an entry whose
\* name ends in .sarif.json, or a file whose name does not end in it
NoSastFileAtPath ==
    IF GivenDirectory
    THEN ~\E f \in fsFiles :
            /\ PathDirname(f) = PathResolve(cwd, args.sourceCodePath)
            /\ SubSeq(f, Len(f) - Len(SarifExt) + 1, Len(f)) = SarifExt
    ELSE SubSeq(args.sourceCodePath, Len(args.sourceCodePath) - Len(SarifExt) + 1,
                Len(args.sourceCodePath)) # SarifExt

\* C23: in the single-file revision a file argument whose name does not match
\* the SAST pattern, or a directory argument without a matching entry, makes
\* findSASTFilePath throw: the run ends with a non-zero exit code and has
\* called neither setupScan nor uploadScanToolResult nor updateScanStatus.
C23_NoMatchThrowsBeforeRemoteCalls ==
    pc # "findSASTFilePath" /\ NoSastFileAtPath =>
        /\ pc = "exited"
        /\ exitCode # 0
        /\ calls = <<>>
        /\ steps = <<"createAndRun", "findSASTFilePath">>
        /\ formData = <<>>

C23_Witness ==
    /\ pc = "exited"
    /\ exitCode = 1
    /\ args.sourceCodePath = RootDir \o <<"/", "a">>
    /\ fsFiles = {FileText, FileInRoot}
    /\ globResult = <<<<"n", ".", "t", "x", "t">>>>
    /\ calls = <<>>

-----------------------------------------------------------------------------
(* C24 *)

\* C24: for every form of sourceCodePath the parentFolder of a file is relative
\* to the root: joining the resolved root, the parentFolder and the file name
\* gives back the absolute path of the file.
C24_ParentFolderJoinsBackToPath ==
    PayloadBuilt =>
        \A i \in 1..Len(sastFiles) :
            /\ 2 * i <= Len(formData)
            /\ PathJoin(PathJoin(cwd, formData[2 * i].value), sastFiles[i].name)
                  = sastFiles[i].path

-----------------------------------------------------------------------------
(* C25 *)

\* the command line and the environment give no clientId or no apiKey
CredentialMissing == args.clientId = "undefined" \/ args.apiKey = "undefined"

\* C25: when clientId or apiKey has no value, createAndRun exits with code 1
\* before any file discovery and before any remote call.
C25_MissingCredentialExitsFirst ==
    CredentialMissing =>
        /\ calls = <<>>
        /\ ~Performed("findSASTFiles")
        /\ cwd = StartDir /\ globResult = <<>> /\ sastFiles = <<>>
        /\ pc \in {"createAndRun", "exited"}
        /\ pc = "exited" => exitCode = 1 /\ steps = <<"createAndRun">>

C25_Witness ==
    /\ args.clientId = "client"
    /\ args.apiKey = "undefined"
    /\ fsFiles = {FileInRoot}
    /\ pc = "exited"
    /\ exitCode = 1

-----------------------------------------------------------------------------
(* C26 *)

\* uploadScanToolResult has returned: the remote service holds the results
UploadReturned ==
    /\ Called("uploadScanToolResult")
    /\ remoteStatus \in {"Running", "Complete", "Failed"}

\* C26: on a run where discovery, scan creation, preparation and upload all
\* succeed, updateScanStatus is never called and exit(1) is never called; a
\* scan marked Error is the scan of a run that failed.
C26_SuccessNeverReportsError ==
    /\ UploadReturned =>
          /\ ~Called("updateScanStatus")
          /\ ~Performed("updateScanStatus")
          /\ ~Performed("exit")
          /\ exitCode = 0
          /\ pc = "exited"
    /\ remoteStatus = "Error" => exitCode = 1 /\ Performed("exit")

C26_Witness ==
    /\ UploadReturned
    /\ remoteStatus = "Complete"
    /\ Len(calls) = 2
    /\ Len(sastFiles) = 2
    /\ exitCode = 0

-----------------------------------------------------------------------------
(* C27 *)

\* the places of the calls that name a scan: uploads and status updates
CallsOfScan ==
    {i \in 1..Len(calls) : calls[i].op \in {"uploadScanToolResult", "updateScanStatus"}}

\* C27: the upload and the status update of the error path carry exactly the
\* projectHash, branchHash and analysisId that the setupScan call of this run
\* returned; the upload is issued at most once, and only after setupScan has
\* returned.
C27_CallsCarryIdsOfSetupScan ==
    /\ \A i \in CallsOfScan :
          /\ i > 1
          /\ calls[1].op = "setupScan"
          /\ calls[1].ids \in ScanResults
          /\ calls[i].ids.projectHash = calls[1].ids.projectHash
          /\ calls[i].ids.branchHash = calls[1].ids.branchHash
          /\ calls[i].ids.analysisId = calls[1].ids.analysisId
    /\ \A i, j \in 1..Len(calls) :
          calls[i].op = "uploadScanToolResult" /\ calls[j].op = "uploadScanToolResult"
             => i = j
    /\ \A i \in 2..Len(calls) : calls[i].op # "setupScan"

C27_Witness ==
    /\ Len(calls) = 3
    /\ calls[1].ids.projectHash = "p2"
    /\ calls[2].op = "uploadScanToolResult"
    /\ calls[2].ids.analysisId = "s2"
    /\ calls[3].op = "updateScanStatus"
    /\ calls[3].ids.branchHash = "b2"

-----------------------------------------------------------------------------
(* C28 *)

\* C28: when sourceCodePath does not exist, discovery fails and the run exits
\* with a non-zero code without any remote call; when discovery succeeds, the
\* working directory of the process is the directory sourceCodePath names, and
\* it stays so for the rest of the run.
C28_MissingRootFailsAndCwdStays ==
    /\ args.sourceCodePath = MissingDir /\ Performed("findSASTFiles") =>
          /\ pc = "exited"
          /\ exitCode # 0
          /\ calls = <<>>
          /\ sastFiles = <<>>
    /\ DiscoveryReturned =>
          /\ args.sourceCodePath \in {RootDir, RootDir \o <<Sep>>, <<"r">>, <<"r", "/">>}
                => cwd = RootDir
          /\ args.sourceCodePath = <<".">> => cwd = StartDir

C28_Witness ==
    /\ args.sourceCodePath = MissingDir
    /\ fsFiles = {FileInRoot, FileOutside}
    /\ steps = <<"createAndRun", "findSASTFiles">>
    /\ pc = "exited"
    /\ exitCode = 1

====
